---- MODULE Spec2Model ----
(***************************************************************************)
(* TileLayer (packages/tyria/src/layers/TileLayer.ts): the tile grid of a  *)
(* view, the frame buffer's resize policy, the ancestor fallback and the   *)
(* requests sent to the image cache, as a state machine over one layer.    *)
(*                                                                         *)
(* Numbers.  Pixel coordinates are rationals; they are kept as integer     *)
(* numerators over the common denominator PxDen.  A fractional view zoom   *)
(* is floor + f for one fixed f with 2^f = Pow2Frac[1] / Pow2Frac[2].      *)
(***************************************************************************)
EXTENDS Integers, Sequences, FiniteSets, TLC

VARIABLES
  isFirefox,    \* line 5: which canvas the constructor picked
  bounds,       \* options.bounds, "none" when the option is absent
  cache,        \* the image cache: the set of tile keys that are available
  frameBuffer,  \* this.frameBuffer: [width, height, pixels]
  last,         \* the last call: its inputs, what it requested, drew and blitted,
                \* and whether it follows a call for the same view
  passes        \* the render passes since construction, while only render ran

vars == <<isFirefox, bounds, cache, frameBuffer, last, passes>>

----------------------------------------------------------------------------
(* Bounds of the model *)

MaxZoomFloor == 1
MaxImages == 2
MaxLayers == 3

(* options.tileSize of the modelled layer *)
tileSize == 100

(* 2^(zoom % 1) of the one fractional zoom the model uses: 3/2 *)
Pow2Frac == <<3, 2>>
PxDen == 2 * Pow2Frac[2]

(* The size of document.createElement('canvas') *)
DefaultCanvasWidth == 300
DefaultCanvasHeight == 150

----------------------------------------------------------------------------
(* Arithmetic of the source language *)

Max(a, b) == IF a >= b THEN a ELSE b
Min(a, b) == IF a <= b THEN a ELSE b
Abs(a) == IF a >= 0 THEN a ELSE -a

(* Math.floor(a / b), b > 0 *)
Floor(a, b) == a \div b

(* Math.ceil(a / b), b > 0 *)
CeilDiv(a, b) == -((-a) \div b)

(* a % b of JavaScript for b > 0: the remainder has the sign of a *)
JsRem(a, b) == IF a >= 0 THEN a % b ELSE -((-a) % b)

----------------------------------------------------------------------------
(* The canvas behind frameBuffer *)

Layer(kind, args) == [kind |-> kind, args |-> args]

(* The buffer's pixels by slot, a tile-sized square of it: slot s holds       *)
(* painted[s] when s is in its domain, and base otherwise.                    *)
Slots(w, h) == (0 .. CeilDiv(w, tileSize) - 1) \X (0 .. CeilDiv(h, tileSize) - 1)

pixelsAt(buf, s) == IF s \in DOMAIN buf.painted THEN buf.painted[s] ELSE buf.base

(* A canvas whose bitmap was just (re)allocated is blank *)
Canvas(w, h) == [width |-> w, height |-> h, base |-> <<Layer("blank", <<>>)>>, painted |-> <<>>]

(* constructor *)
newFrameBuffer(firefox) ==
  IF firefox THEN Canvas(DefaultCanvasWidth, DefaultCanvasHeight) ELSE Canvas(0, 0)

(* buffer.width = v.  OffscreenCanvas.width is [EnforceRange] unsigned long  *)
(* long: a negative value throws a TypeError and nothing is assigned.        *)
(* HTMLCanvasElement.width reflects the content attribute: a value outside   *)
(* 0 .. 2^31-1 sets the default.  Either assignment reallocates the bitmap.  *)
setWidth(firefox, buf, v) ==
  IF v >= 0 THEN [threw |-> FALSE, buffer |-> Canvas(v, buf.height)]
  ELSE IF firefox THEN [threw |-> FALSE, buffer |-> Canvas(DefaultCanvasWidth, buf.height)]
  ELSE [threw |-> TRUE, buffer |-> buf]

setHeight(firefox, buf, v) ==
  IF v >= 0 THEN [threw |-> FALSE, buffer |-> Canvas(buf.width, v)]
  ELSE IF firefox THEN [threw |-> FALSE, buffer |-> Canvas(buf.width, DefaultCanvasHeight)]
  ELSE [threw |-> TRUE, buffer |-> buf]

(* buffer.width = w2; buffer.height = h2; the second is not reached when the *)
(* first throws                                                               *)
resize(firefox, buf, w2, h2) ==
  LET a == setWidth(firefox, buf, w2) IN
  IF a.threw THEN [threw |-> "width", buffer |-> a.buffer]
  ELSE LET b == setHeight(firefox, a.buffer, h2) IN
       [threw |-> IF b.threw THEN "height" ELSE "no", buffer |-> b.buffer]

----------------------------------------------------------------------------
(* getTiles *)

ceilZoom(zoom) == zoom.floor + (IF zoom.frac THEN 1 ELSE 0)

(* renderedTileSize, over PxDen *)
renderedTileSize(zoom) ==
  IF ~zoom.frac THEN tileSize * PxDen ELSE Pow2Frac[1] * tileSize

(* The host's projection of a geographic coordinate, over PxDen: pixel       *)
(* coordinates double per zoom level                                          *)
project(zoom, p) ==
  p * (2 ^ zoom.floor) * (IF zoom.frac THEN 2 * Pow2Frac[1] ELSE PxDen)

bottomRight_Inclusive(center, half, boundsBottomRight) ==
  Min(center + half, boundsBottomRight)

(* lines 53-54: Math.min(center + size / 2, boundsBottomRight) - 1 *)
bottomRight(center, half, boundsBottomRight) ==
  Min(center + half, boundsBottomRight) - PxDen

optionBounds(b) == IF b = "none" THEN <<<<0, 0>>, <<0, 0>>>> ELSE b

getTiles(b, state) ==
  LET zoom == ceilZoom(state.zoom)
      rts == renderedTileSize(state.zoom)
      center == [i \in 1..2 |-> project(state.zoom, state.center[i])]
      boundsTopLeft == [i \in 1..2 |-> project(state.zoom, optionBounds(b)[1][i])]
      boundsBottomRight == [i \in 1..2 |-> project(state.zoom, optionBounds(b)[2][i])]
      halfWidth == state.width * Pow2Frac[2]
      halfHeight == state.height * Pow2Frac[2]
      topLeftX == Max(center[1] - halfWidth, boundsTopLeft[1])
      topLeftY == Max(center[2] - halfHeight, boundsTopLeft[2])
      bottomRightX == bottomRight(center[1], halfWidth, boundsBottomRight[1])
      bottomRightY == bottomRight(center[2], halfHeight, boundsBottomRight[2])
  IN [threw |-> 2 * rts < tileSize * PxDen,
      tileSize |-> tileSize,
      tileTopLeft |-> <<Floor(topLeftX, rts), Floor(topLeftY, rts)>>,
      tileBottomRight |-> <<Floor(bottomRightX, rts), Floor(bottomRightY, rts)>>,
      zoom |-> zoom,
      renderedTileSize |-> rts]

Columns(t) == t.tileBottomRight[1] - t.tileTopLeft[1] + 1
Rows(t) == t.tileBottomRight[2] - t.tileTopLeft[2] + 1
Cells(t) == (t.tileTopLeft[1] .. t.tileBottomRight[1]) \X (t.tileTopLeft[2] .. t.tileBottomRight[2])

----------------------------------------------------------------------------
(* The image cache and the requests it receives *)

(* options.source(x, y, zoom): the key of a tile *)
source(x, y, zoom) == <<x, y, zoom>>

(* getImage(src, ...): the image when it is available, else undefined *)
getImage(c, src) == src \in c

NoPriority == [kind |-> "none", num |-> 0, den |-> 1]

(* multiply(subtract(divide(subtract([x, y], tileTopLeft), size), 0.5), 2),   *)
(* one component: i = x - tileTopLeft[0], s = size[0].  i / 0 is NaN for      *)
(* i = 0 and Infinity otherwise.                                              *)
fromCenter(i, s) ==
  IF s = 0 THEN [kind |-> IF i = 0 THEN "NaN" ELSE "Infinity", num |-> 0, den |-> 1]
  ELSE [kind |-> "finite", num |-> Abs(2 * i - s), den |-> Abs(s)]

(* distance = (Math.abs(d[0]) + Math.abs(d[1])) / 2 *)
centerDistance(i, j, size) ==
  LET a == fromCenter(i, size[1])
      b == fromCenter(j, size[2])
  IN IF a.kind = "NaN" \/ b.kind = "NaN" THEN [kind |-> "NaN", num |-> 0, den |-> 1]
     ELSE IF a.kind = "Infinity" \/ b.kind = "Infinity"
       THEN [kind |-> "Infinity", num |-> 0, den |-> 1]
     ELSE [kind |-> "finite", num |-> a.num * b.den + b.num * a.den, den |-> 2 * a.den * b.den]

(* base - distance *)
priorityOf(base, d) ==
  IF d.kind = "NaN" THEN d
  ELSE IF d.kind = "Infinity" THEN [kind |-> "-Infinity", num |-> 0, den |-> 1]
  ELSE [kind |-> "finite", num |-> base * d.den - d.num, den |-> d.den]

(* render, line 114: size = subtract(tileBottomRight, tileTopLeft) *)
renderSize(t) ==
  <<t.tileBottomRight[1] - t.tileTopLeft[1], t.tileBottomRight[2] - t.tileTopLeft[2]>>

(* preload, line 218: size = subtract(tileBottomRight, add(tileTopLeft, 1)) *)
preloadSize(t) ==
  <<t.tileBottomRight[1] - (t.tileTopLeft[1] + 1), t.tileBottomRight[2] - (t.tileTopLeft[2] + 1)>>

renderDistance(t, x, y) ==
  centerDistance(x - t.tileTopLeft[1], y - t.tileTopLeft[2], renderSize(t))

preloadDistance(t, x, y) ==
  centerDistance(x - t.tileTopLeft[1], y - t.tileTopLeft[2], preloadSize(t))

tileRequest_AlwaysLoads(t, x, y, reason) ==
  [kind |-> "tile", src |-> source(x, y, t.zoom),
   priority |-> priorityOf(2, renderDistance(t, x, y)),
   cacheOnly |-> FALSE, preload |-> FALSE]

(* line 124: getImage(src, { priority: 2 - distance, cacheOnly: reason === 'ease' }) *)
tileRequest(t, x, y, reason) ==
  [kind |-> "tile", src |-> source(x, y, t.zoom),
   priority |-> priorityOf(2, renderDistance(t, x, y)),
   cacheOnly |-> (reason = "ease"), preload |-> FALSE]

(* line 187: getImage(src, { cacheOnly: true }) *)
fallbackRequest(src) ==
  [kind |-> "fallback", src |-> src, priority |-> NoPriority,
   cacheOnly |-> TRUE, preload |-> FALSE]

(* line 227: getImage(src, { priority: 3 - distance, preload: true }) *)
preloadRequest(t, x, y) ==
  [kind |-> "preload", src |-> source(x, y, t.zoom),
   priority |-> priorityOf(3, preloadDistance(t, x, y)),
   cacheOnly |-> FALSE, preload |-> TRUE]

----------------------------------------------------------------------------
(* getFallbackTile.  x / den and y / den are the coordinates the call was     *)
(* given (halved, not floored, at each level), 1 / scaleDen its scale.        *)

NoFallback == [found |-> FALSE, image |-> <<>>, scale |-> <<0, 1>>,
               x |-> <<0, 1>>, y |-> <<0, 1>>, lookups |-> <<>>]

(* the same with the recursion ending one level late *)
RECURSIVE getFallbackTile_PastRoot(_, _, _, _, _, _)
getFallbackTile_PastRoot(c, x, y, den, zoom, scaleDen) ==
  IF zoom = -1 THEN NoFallback
  ELSE LET src == source(Floor(x, 2 * den), Floor(y, 2 * den), zoom - 1)
       IN IF getImage(c, src)
          THEN [found |-> TRUE, image |-> src, scale |-> <<1, 2 * scaleDen>>,
                x |-> <<JsRem(x, 2 * den), 2 * den>>,
                y |-> <<JsRem(y, 2 * den), 2 * den>>,
                lookups |-> <<fallbackRequest(src)>>]
          ELSE LET r == getFallbackTile_PastRoot(c, x, y, 2 * den, zoom - 1, 2 * scaleDen)
               IN [r EXCEPT !.lookups = <<fallbackRequest(src)>> \o @]

RECURSIVE getFallbackTile(_, _, _, _, _, _)
getFallbackTile(c, x, y, den, zoom, scaleDen) ==
  IF zoom = 0 THEN NoFallback
  ELSE LET src == source(Floor(x, 2 * den), Floor(y, 2 * den), zoom - 1)
       IN IF getImage(c, src)
          THEN [found |-> TRUE, image |-> src, scale |-> <<1, 2 * scaleDen>>,
                x |-> <<JsRem(x, 2 * den), 2 * den>>,
                y |-> <<JsRem(y, 2 * den), 2 * den>>,
                lookups |-> <<fallbackRequest(src)>>]
          ELSE LET r == getFallbackTile(c, x, y, 2 * den, zoom - 1, 2 * scaleDen)
               IN [r EXCEPT !.lookups = <<fallbackRequest(src)>> \o @]

----------------------------------------------------------------------------
(* Drawing.  A slot of the buffer holds the layers painted on it since it was *)
(* last opaque, bottom first: an image may be translucent, so what is under   *)
(* it shows.                                                                  *)

(* line 132 for every cell whose tile is not available *)
fallbacks(c, t) ==
  [xy \in {q \in Cells(t) : ~getImage(c, source(q[1], q[2], t.zoom))} |->
     getFallbackTile(c, xy[1], xy[2], 1, t.zoom, 1)]

(* line 124 for every cell *)
renderRequests(t, reason) ==
  [xy \in Cells(t) |-> tileRequest(t, xy[1], xy[2], reason)]

fillRect_Skipped(buf) == buf

(* bufferCtx.fillRect(0, 0, buffer.width, buffer.height) in the background colour *)
fillRect(buf) == [buf EXCEPT !.base = <<Layer("background", <<>>)>>, !.painted = <<>>]

(* lines 126-148: one cell of the grid, on the slot's current content;        *)
(* fallback is the result of line 132                                         *)
drawCell(c, t, xy, debug, under, fallback) ==
  IF getImage(c, source(xy[1], xy[2], t.zoom))
  THEN Append(under, Layer("tile", source(xy[1], xy[2], t.zoom)))
  ELSE IF fallback[xy].found
  THEN LET drawn == Append(under, Layer("fallback", fallback[xy].image \o fallback[xy].x
                                                     \o fallback[xy].y \o fallback[xy].scale))
       IN IF debug THEN Append(drawn, Layer("#0000ff33", <<>>)) ELSE drawn
  ELSE IF debug THEN <<Layer("#220000", <<>>)>> ELSE <<Layer("blank", <<>>)>>

(* lines 116-151: every cell on its slot, clipped to the buffer *)
drawTiles(c, t, debug, buf, fallback) ==
  [buf EXCEPT !.painted =
     [s \in {q \in (0 .. Columns(t) - 1) \X (0 .. Rows(t) - 1) :
               q[1] * t.tileSize < buf.width /\ q[2] * t.tileSize < buf.height} |->
        drawCell(c, t, <<t.tileTopLeft[1] + s[1], t.tileTopLeft[2] + s[2]>>, debug,
                 pixelsAt(buf, s), fallback)]]

NoBlit == [drawn |-> FALSE, dest |-> <<>>, base |-> <<>>, painted |-> <<>>]

(* lines 154-160: context.drawImage(buffer, 0, 0, bufferWidth, bufferHeight,  *)
(* ...).  Nothing is painted from an empty source rectangle or one outside    *)
(* the buffer; filtering reads one pixel past the source rectangle, so the    *)
(* result depends on the slots next to it too.                                *)
blit(t, buf) ==
  IF Columns(t) <= 0 \/ Rows(t) <= 0 \/ buf.width = 0 \/ buf.height = 0 THEN NoBlit
  ELSE [drawn |-> TRUE,
        dest |-> <<t.tileTopLeft[1] * t.renderedTileSize, t.tileTopLeft[2] * t.renderedTileSize,
                   Columns(t) * t.renderedTileSize, Rows(t) * t.renderedTileSize>>,
        base |-> buf.base,
        painted |-> [s \in {q \in DOMAIN buf.painted : q[1] <= Columns(t) /\ q[2] <= Rows(t)} |->
                       buf.painted[s]]]

(* lines 162-172: renderDebugGrid for every cell *)
debugGrid(t, debug, blitted) ==
  IF debug /\ blitted
  THEN {<<xy[1], xy[2], t.zoom, (xy[1] + xy[2]) % 2>> : xy \in Cells(t)}
  ELSE {}

----------------------------------------------------------------------------
(* render, preload and preloadImages: the frame buffer after the call and     *)
(* what the call did                                                          *)

Idle == [op |-> "none", follows |-> "", state |-> <<>>, reason |-> "", tiles |-> <<>>,
         bufferWidth |-> 0, bufferHeight |-> 0, resized |-> FALSE,
         assigned |-> <<>>, threw |-> "no", requests |-> <<>>, fallbacks |-> <<>>,
         blit |-> NoBlit, debugGrid |-> {}]

renderResizes_GrowOnly(buf, w, h) ==
  buf.width < w \/ buf.height < h

(* line 91 *)
renderResizes(buf, w, h) ==
  buf.width < w \/ buf.height < h \/ buf.width > w * 4 \/ buf.height > h * 4

preloadResizes_WidthOnly(buf, w, h) ==
  buf.width < w * 2

(* line 238 *)
preloadResizes(buf, w, h) ==
  buf.width < w * 2 \/ buf.height < h * 2

(* lines 153-172 of render, on the buffer as drawn *)
present(t, state, reason, sizing, buf, fallback, blitted) ==
  [buffer |-> buf,
   out |-> [sizing EXCEPT !.requests = renderRequests(t, reason),
                          !.fallbacks = fallback,
                          !.blit = blitted,
                          !.threw = IF buf.width = 0 \/ buf.height = 0 THEN "drawImage" ELSE "no",
                          !.debugGrid = debugGrid(t, state.debug, blitted.drawn)]]

(* lines 98-160 of render, on the buffer as sized: fill, draw, blit *)
compose(c, t, state, reason, sizing, buf, fallback) ==
  present(t, state, reason, sizing, buf, fallback, blit(t, buf))

(* lines 84-96 of render, and the rest when the canvas took the size *)
ensure(firefox, c, buf, t, state, reason, resized, sized) ==
  LET sizing == [Idle EXCEPT !.op = "render", !.state = state, !.reason = reason,
                             !.tiles = t,
                             !.bufferWidth = Columns(t) * t.tileSize,
                             !.bufferHeight = Rows(t) * t.tileSize,
                             !.resized = resized,
                             !.assigned = IF resized
                                          THEN <<Columns(t) * t.tileSize * 2, Rows(t) * t.tileSize * 2>>
                                          ELSE <<>>,
                             !.threw = sized.threw]
  IN IF sized.threw # "no" THEN [buffer |-> sized.buffer, out |-> sizing]
     ELSE compose(c, t, state, reason, sizing,
                  drawTiles(c, t, state.debug, fillRect(sized.buffer), fallbacks(c, t)),
                  fallbacks(c, t))

renderTiles(firefox, c, buf, t, state, reason) ==
  IF t.threw
  THEN [buffer |-> buf,
        out |-> [Idle EXCEPT !.op = "render", !.state = state, !.reason = reason, !.threw = "getTiles"]]
  ELSE LET resized == renderResizes(buf, Columns(t) * t.tileSize, Rows(t) * t.tileSize)
       IN ensure(firefox, c, buf, t, state, reason, resized,
                 IF resized
                 THEN resize(firefox, buf, Columns(t) * t.tileSize * 2, Rows(t) * t.tileSize * 2)
                 ELSE [threw |-> "no", buffer |-> buf])

render(firefox, b, c, buf, state, reason) ==
  renderTiles(firefox, c, buf, getTiles(b, state), state, reason)

(* lines 218-242 of preload *)
preloadTiles(firefox, buf, t, state) ==
  IF t.threw
  THEN [buffer |-> buf, out |-> [Idle EXCEPT !.op = "preload", !.state = state, !.threw = "getTiles"]]
  ELSE LET bufferWidth == Columns(t) * t.tileSize
           bufferHeight == Rows(t) * t.tileSize
           resized == preloadResizes(buf, bufferWidth, bufferHeight)
           sized == IF resized THEN resize(firefox, buf, bufferWidth * 2, bufferHeight * 2)
                    ELSE [threw |-> "no", buffer |-> buf]
       IN [buffer |-> sized.buffer,
           out |-> [Idle EXCEPT !.op = "preload", !.state = state,
                                !.tiles = t, !.bufferWidth = bufferWidth,
                                !.bufferHeight = bufferHeight, !.resized = resized,
                                !.assigned = IF resized THEN <<bufferWidth * 2, bufferHeight * 2>> ELSE <<>>,
                                !.threw = sized.threw,
                                !.requests = [xy \in Cells(t) |-> preloadRequest(t, xy[1], xy[2])]]]

preload(firefox, b, buf, state) == preloadTiles(firefox, buf, getTiles(b, state), state)

(* bufferCtx.drawImage(images[i], 0, 0) for the n images; a bitmap is no       *)
(* larger than a tile, and nothing is painted on a buffer without pixels       *)
RECURSIVE drawBitmaps(_, _, _)
drawBitmaps(under, i, n) ==
  IF i > n THEN under ELSE drawBitmaps(Append(under, Layer("bitmap", <<i>>)), i + 1, n)

preloadImages(buf, n) ==
  IF n = 0 \/ <<0, 0>> \notin Slots(buf.width, buf.height) THEN buf
  ELSE [buf EXCEPT !.painted =
          [s \in (DOMAIN buf.painted) \cup {<<0, 0>>} |->
             IF s = <<0, 0>> THEN drawBitmaps(pixelsAt(buf, s), 1, n) ELSE buf.painted[s]]]

----------------------------------------------------------------------------
(* The hysteresis scenario of the design: required sizes per axis *)

Scenario == <<100, 100, 100, 500, 100, 100, 100>>

Untracked == [on |-> FALSE, log |-> <<>>]

(* the passes so far, as long as they are the scenario's *)
track(p, out) ==
  IF /\ p.on
     /\ Len(p.log) < Len(Scenario)
     /\ out.threw \in {"no", "drawImage"}
     /\ out.bufferWidth = Scenario[Len(p.log) + 1]
     /\ out.bufferHeight = Scenario[Len(p.log) + 1]
  THEN [p EXCEPT !.log = Append(@, out.resized)]
  ELSE Untracked

----------------------------------------------------------------------------
(* The inputs *)

Zooms == [floor : 0 .. MaxZoomFloor, frac : BOOLEAN]
MaxZoom == MaxZoomFloor + 1

NoBounds == "none"
WideBounds == <<<<-100, -100>>, <<500, 500>>>>
NarrowBounds == <<<<0, 0>>, <<100, 100>>>>

Views(zooms, centers, widths, heights, debugs) ==
  [zoom : zooms, center : centers, width : widths, height : heights, debug : debugs]

(* the tiles of levels 0 .. n, all of them or every other column *)
TileCoords == -4 .. 8
Loaded(n) == TileCoords \X TileCoords \X (0 .. n)
Striped(n) == {k \in Loaded(n) : k[1] % 2 = 1}

----------------------------------------------------------------------------
(* The layer *)

Constructed(boundsOptions, caches) ==
  /\ isFirefox \in BOOLEAN
  /\ bounds \in boundsOptions
  /\ cache \in caches
  /\ frameBuffer = newFrameBuffer(isFirefox)
  /\ last = Idle
  /\ passes = [on |-> TRUE, log |-> <<>>]

(* The call before this one, when it was for the same view *)
followsSame(state) ==
  IF last.op \in {"render", "preload"} /\ last.state = state THEN last.op ELSE ""

(* The call before this one, when it asked for the grid of the same view one  *)
(* zoom level lower                                                           *)
followsZoomIn(state) ==
  IF /\ last.op = "getTiles"
     /\ state.zoom.floor > 0
     /\ last.state = [state EXCEPT !.zoom.floor = @ - 1]
  THEN "zoom - 1" ELSE ""

(* getTiles is public: the host may ask for the grid of a view *)
GetTiles(state) ==
  /\ last' = [Idle EXCEPT !.op = "getTiles", !.follows = followsZoomIn(state),
                          !.state = state, !.tiles = getTiles(bounds, state)]
  /\ passes' = Untracked
  /\ UNCHANGED <<isFirefox, bounds, cache, frameBuffer>>

Render(state, reason) ==
  LET r == render(isFirefox, bounds, cache, frameBuffer, state, reason) IN
  /\ frameBuffer' = r.buffer
  /\ last' = [r.out EXCEPT !.follows = followsSame(state)]
  /\ passes' = track(passes, r.out)
  /\ UNCHANGED <<isFirefox, bounds, cache>>

Preload(state) ==
  LET r == preload(isFirefox, bounds, frameBuffer, state) IN
  /\ frameBuffer' = r.buffer
  /\ last' = [r.out EXCEPT !.follows = followsSame(state)]
  /\ passes' = Untracked
  /\ UNCHANGED <<isFirefox, bounds, cache>>

PreloadImages(n) ==
  /\ Len(pixelsAt(frameBuffer, <<0, 0>>)) + n <= MaxLayers
  /\ frameBuffer' = preloadImages(frameBuffer, n)
  /\ last' = [Idle EXCEPT !.op = "preloadImages"]
  /\ passes' = Untracked
  /\ UNCHANGED <<isFirefox, bounds, cache>>

(* The cache finishes loading: tiles become available between two calls *)
CacheLoad(c) ==
  /\ cache \subseteq c
  /\ cache # c
  /\ cache' = c
  /\ last' = [Idle EXCEPT !.op = "load"]
  /\ passes' = Untracked
  /\ UNCHANGED <<isFirefox, bounds, frameBuffer>>

(* The layer under any calls: the buffer's size over render and preload *)
ViewStates == Views(Zooms, {<<50, 250>>}, {100, 300}, {100, 300}, {FALSE})

Init == Constructed({NoBounds, WideBounds}, {{}})

Next ==
  \/ \E state \in ViewStates : Render(state, "pan")
  \/ \E state \in ViewStates : Preload(state)
  \/ \E n \in 0 .. MaxImages : PreloadImages(n)

Spec == Init /\ [][Next]_vars

(* Render passes alone, over the sizes of the hysteresis scenario *)
HysteresisViews ==
  Views({[floor |-> 0, frac |-> FALSE]}, {<<50, 50>>, <<250, 250>>}, {100, 500}, {100, 500}, {FALSE})

InitHysteresis == Constructed({WideBounds}, {{}, Loaded(0)})

NextHysteresis == \E state \in HysteresisViews, reason \in {"pan", "ease"} : Render(state, reason)

SpecHysteresis == InitHysteresis /\ [][NextHysteresis]_vars

(* getTiles alone, over views and bounds *)
GridViews == Views(Zooms, {50, 250} \X {50, 250}, {100, 500}, {100, 500}, {FALSE})

InitGrid == Constructed({NoBounds, WideBounds, NarrowBounds}, {{}})

NextGrid == \E state \in GridViews : GetTiles(state)

SpecGrid == InitGrid /\ [][NextGrid]_vars

(* The layer's drawing and requests, over caches that load *)
TileViews == Views(Zooms, {<<50, 250>>}, {300}, {100}, BOOLEAN)

TileCaches == {{}, Loaded(0), Striped(MaxZoom), Loaded(MaxZoom)}

InitTiles == Constructed({WideBounds}, TileCaches)

(* the views preloaded ahead of a frame *)
PresizedViews == Views({[floor |-> 0, frac |-> FALSE]}, {<<50, 250>>}, {300}, {100, 500}, {FALSE})

NextTiles ==
  \/ \E state \in TileViews, reason \in {"pan", "ease"} : Render(state, reason)
  \/ \E state \in PresizedViews : Preload(state)
  \/ \E n \in 0 .. MaxImages : PreloadImages(n)
  \/ \E c \in TileCaches : CacheLoad(c)

SpecTiles == InitTiles /\ [][NextTiles]_vars

----------------------------------------------------------------------------
(* The buffer's size *)

Sized == last.op \in {"render", "preload"} /\ last.threw # "getTiles"

(* C1: a render pass resizes the buffer exactly when it is smaller than the   *)
(* required size (w, h) or more than 4 times it in a dimension; a resize      *)
(* makes it exactly (2w, 2h), and otherwise the pass leaves both dimensions.  *)
C1_ResizeRule ==
  [][last'.op = "render" /\ last'.threw # "getTiles" =>
       LET w == last'.bufferWidth
           h == last'.bufferHeight
       IN /\ last'.resized <=> (\/ frameBuffer.width < w \/ frameBuffer.height < h
                                \/ frameBuffer.width > 4 * w \/ frameBuffer.height > 4 * h)
          /\ last'.resized => frameBuffer'.width = 2 * w /\ frameBuffer'.height = 2 * h
          /\ ~last'.resized => /\ frameBuffer'.width = frameBuffer.width
                               /\ frameBuffer'.height = frameBuffer.height]_vars

(* C10: render and preload never assign a negative width or height, and in a  *)
(* render pass 0 <= w <= buffer.width and 0 <= h <= buffer.height.            *)
C10_SizesInRange ==
  /\ Sized /\ last.resized => last.assigned[1] >= 0 /\ last.assigned[2] >= 0
  /\ Sized /\ last.op = "render" =>
       /\ 0 <= last.bufferWidth /\ last.bufferWidth <= frameBuffer.width
       /\ 0 <= last.bufferHeight /\ last.bufferHeight <= frameBuffer.height

(* C6 as stated: a render pass right after preload for the same view does not *)
(* resize the buffer.  Stated here for grids that have cells, after a preload *)
(* that returned.                                                             *)
C6_NoResizeAfterPreload ==
  [][last'.op = "render" /\ last'.follows = "preload" /\ last.threw = "no"
     /\ last'.bufferWidth > 0 /\ last'.bufferHeight > 0 => ~last'.resized]_vars

(* C6, amended: a render pass right after preload for the same view never    *)
(* finds the buffer smaller than required; it resizes the buffer exactly when *)
(* it is more than 4 times the required size in a dimension.                  *)
C6_OnlyShrinksAfterPreload ==
  [][last'.op = "render" /\ last'.follows = "preload" =>
       /\ frameBuffer.width >= last'.bufferWidth
       /\ frameBuffer.height >= last'.bufferHeight
       /\ last'.resized <=> (\/ frameBuffer.width > 4 * last'.bufferWidth
                             \/ frameBuffer.height > 4 * last'.bufferHeight)]_vars

C6_Witness ==
  /\ last.op = "render" /\ last.follows = "preload" /\ last.threw = "no"
  /\ last.bufferWidth > 0 /\ last.bufferHeight > 0
  /\ last.resized

(* C2 as stated: from a fresh 0x0 buffer, over passes that require 100, 100,  *)
(* 100, 500, 100, ... per axis, the pass to 500 resizes and the pass right    *)
(* after the return to 100 does not.                                          *)
C2_NoShrinkAfterGrow ==
  ~isFirefox /\ passes.on /\ Len(passes.log) >= 5 => passes.log[4] /\ ~passes.log[5]

(* C2, amended: over those passes the buffer is resized in the first pass (to *)
(* 200), in the pass to 500 (to 1000) and again in the pass right after the   *)
(* return to 100 (1000 > 4 * 100, back to 200), and in no other pass.         *)
C2_ShrinksAfterGrow ==
  ~isFirefox /\ passes.on =>
    /\ \A i \in 1 .. Len(passes.log) : passes.log[i] <=> i \in {1, 4, 5}
    /\ Len(passes.log) > 0 =>
         /\ frameBuffer.width = (IF Len(passes.log) = 4 THEN 1000 ELSE 200)
         /\ frameBuffer.height = frameBuffer.width

C2_Witness == ~isFirefox /\ passes.on /\ Len(passes.log) = Len(Scenario)

----------------------------------------------------------------------------
(* The grid *)

ZoomedOut(state) == [state EXCEPT !.zoom.floor = @ - 1]

(* axis i of the view: the viewport reaches past the projected bounds on both *)
(* sides, and the projected bounds are whole tiles                            *)
CutByBounds(state, i) ==
  LET size == IF i = 1 THEN state.width ELSE state.height
      c == project(state.zoom, state.center[i])
      lo == project(state.zoom, optionBounds(bounds)[1][i])
      hi == project(state.zoom, optionBounds(bounds)[2][i])
  IN /\ c - size * Pow2Frac[2] <= lo
     /\ c + size * Pow2Frac[2] >= hi
     /\ lo % renderedTileSize(state.zoom) = 0
     /\ hi % renderedTileSize(state.zoom) = 0

(* axis i of the view: the viewport lies inside the projected bounds *)
InsideBounds(state, i) ==
  LET size == IF i = 1 THEN state.width ELSE state.height
      c == project(state.zoom, state.center[i])
  IN /\ c - size * Pow2Frac[2] >= project(state.zoom, optionBounds(bounds)[1][i])
     /\ c + size * Pow2Frac[2] <= project(state.zoom, optionBounds(bounds)[2][i])

Count(t, i) == t.tileBottomRight[i] - t.tileTopLeft[i] + 1

(* C8 as stated: for the same viewport and centre one zoom level up, the grid *)
(* has twice the columns and twice the rows.                                  *)
C8_GridDoubles ==
  [][last'.op = "getTiles" /\ last'.follows = "zoom - 1" =>
       \A i \in 1 .. 2 : Count(last'.tiles, i) = 2 * Count(last.tiles, i)]_vars

(* C8, amended: one zoom level up, the columns (rows) double where the        *)
(* bounds cut the grid on both sides at both levels and the projected bounds  *)
(* are whole tiles; where the viewport lies inside the projected bounds at    *)
(* both levels their number changes by at most one.                           *)
C8_GridDoublesWhenCut ==
  [][last'.op = "getTiles" /\ last'.follows = "zoom - 1" =>
       \A i \in 1 .. 2 :
         /\ CutByBounds(last.state, i) /\ CutByBounds(last'.state, i) =>
              Count(last'.tiles, i) = 2 * Count(last.tiles, i)
         /\ InsideBounds(last.state, i) /\ InsideBounds(last'.state, i) =>
              Abs(Count(last'.tiles, i) - Count(last.tiles, i)) <= 1]_vars

C8_Witness ==
  /\ last.op = "getTiles" /\ last.follows = "zoom - 1"
  /\ \A i \in 1 .. 2 :
       /\ CutByBounds(last.state, i) /\ CutByBounds(ZoomedOut(last.state), i)
       /\ Count(last.tiles, i) = 2
       /\ Count(getTiles(bounds, ZoomedOut(last.state)), i) = 1

----------------------------------------------------------------------------
(* The fallback *)

Missed == IF last.op = "render" THEN DOMAIN last.fallbacks ELSE {}

(* the levels k at which the ancestor of tile xy of the last grid is loaded *)
Ancestor(xy, k) == source(xy[1] \div (2 ^ k), xy[2] \div (2 ^ k), last.tiles.zoom - k)
AvailableLevels(xy) == {k \in 1 .. last.tiles.zoom : Ancestor(xy, k) \in cache}
Nearest(xy) == CHOOSE k \in AvailableLevels(xy) : \A j \in AvailableLevels(xy) : k <= j

(* C3: the fallback of tile (x, y) is its nearest loaded ancestor, k levels   *)
(* up, with scale 2^-k and offset ((x mod 2^k) / 2^k, (y mod 2^k) / 2^k); the *)
(* offset lies in [0, 1) and offset + scale <= 1.                             *)
C3_FallbackIsNearestAncestor ==
  \A xy \in Missed :
    AvailableLevels(xy) # {} =>
      LET k == Nearest(xy)
          f == last.fallbacks[xy]
      IN /\ f.found
         /\ f.image = Ancestor(xy, k)
         /\ f.scale = <<1, 2 ^ k>>
         /\ f.x = <<xy[1] % (2 ^ k), 2 ^ k>>
         /\ f.y = <<xy[2] % (2 ^ k), 2 ^ k>>
         /\ 0 <= f.x[1] /\ f.x[1] + 1 <= f.x[2]
         /\ 0 <= f.y[1] /\ f.y[1] + 1 <= f.y[2]

(* C4: at zoom 0 the fallback asks nothing and finds nothing; at zoom z > 0   *)
(* it asks at most z times, for the ancestors at z-1, z-2, ... in turn, and   *)
(* finds nothing exactly when no ancestor is loaded.                          *)
C4_FallbackTerminates ==
  \A xy \in Missed :
    LET f == last.fallbacks[xy]
        z == last.tiles.zoom
    IN /\ z = 0 => ~f.found /\ f.lookups = <<>>
       /\ Len(f.lookups) <= z
       /\ \A k \in 1 .. Len(f.lookups) : f.lookups[k].src = Ancestor(xy, k)
       /\ ~f.found <=> AvailableLevels(xy) = {}
       /\ ~f.found => Len(f.lookups) = z

C4_Witness ==
  /\ last.op = "render" /\ last.tiles.zoom = MaxZoom
  /\ \E xy \in Missed : ~last.fallbacks[xy].found /\ Len(last.fallbacks[xy].lookups) = MaxZoom
  /\ \E xy \in Missed : last.fallbacks[xy].found /\ Len(last.fallbacks[xy].lookups) = 1

(* C5: every request of the fallback is cache-only; in a render pass for      *)
(* "ease" every request is; in any other pass the requests for the tiles      *)
(* themselves are not.                                                        *)
C5_CacheOnly ==
  last.op = "render" =>
    /\ \A xy \in Missed : \A k \in 1 .. Len(last.fallbacks[xy].lookups) :
         last.fallbacks[xy].lookups[k].cacheOnly
    /\ \A xy \in DOMAIN last.requests :
         last.requests[xy].cacheOnly <=> last.reason = "ease"

C5_Witness ==
  /\ last.op = "render" /\ last.reason = "ease"
  /\ \E xy \in Missed : Len(last.fallbacks[xy].lookups) > 0
  /\ \E xy \in DOMAIN last.requests : xy \notin Missed

----------------------------------------------------------------------------
(* The frame *)

FullyPopulated(t) == \A xy \in Cells(t) : getImage(cache, source(xy[1], xy[2], t.zoom))

(* C7: a render pass right after a render pass for the same view, with every  *)
(* tile of the grid loaded and the cache as it was, leaves the buffer's size  *)
(* and pixels as the first pass left them, and blits the same pixels to the   *)
(* same place.                                                                *)
C7_RenderTwice ==
  [][/\ last'.op = "render" /\ last'.follows = "render"
     /\ last'.threw # "getTiles" /\ FullyPopulated(last'.tiles)
     => /\ frameBuffer' = frameBuffer
        /\ last'.blit = last.blit
        /\ last'.debugGrid = last.debugGrid]_vars

C7_Witness ==
  /\ last.op = "render" /\ last.follows = "render" /\ last.blit.drawn
  /\ Columns(last.tiles) > 1
  /\ FullyPopulated(last.tiles)

----------------------------------------------------------------------------
(* The priorities *)

InUnit(d) == d.kind = "finite" /\ 0 <= d.num /\ d.num <= d.den
Between(p, lo, hi) == p.kind = "finite" /\ lo * p.den <= p.num /\ p.num <= hi * p.den

(* C9: in every grid with cells the distance of a cell from the centre is a   *)
(* number in [0, 1], in render and in preload; so a render request has        *)
(* priority in [1, 2], a preload request in [2, 3], not below the render      *)
(* priority of the same cell.                                                 *)
C9_PrioritiesInRange ==
  /\ last.op = "render" =>
       \A xy \in DOMAIN last.requests :
         /\ InUnit(renderDistance(last.tiles, xy[1], xy[2]))
         /\ Between(last.requests[xy].priority, 1, 2)
  /\ last.op = "preload" =>
       \A xy \in DOMAIN last.requests :
         /\ InUnit(preloadDistance(last.tiles, xy[1], xy[2]))
         /\ Between(last.requests[xy].priority, 2, 3)
         /\ LET r == tileRequest(last.tiles, xy[1], xy[2], "pan").priority
                p == last.requests[xy].priority
            IN r.kind = "finite" /\ p.num * r.den >= r.num * p.den

====
